---- MODULE Spec2Model ----
(***************************************************************************)
(* Model of spock/plugins/core/net.py: SelectSocket, NetCore and NetPlugin. *)
(* The packet codec (spock.mcp.mcpacket / mcdata), the receive buffer       *)
(* (spock.utils.BoundBuffer), the cipher (spock.mcp.mccrypto) and the event *)
(* bus are collaborators of net.py; they are modelled from the written      *)
(* specification (sections 4.1, 4.3, 4.4 and 6).                            *)
(***************************************************************************)
EXTENDS Integers, Sequences, FiniteSets, TLC

(* ---------------------------- bounds ---------------------------------- *)
MaxRbuff == 3      \* bytes the receive buffer may hold after a recv
MaxSbuff == 3      \* bytes the send buffer may hold before a push
MaxGen == 2        \* socket handles allocated by SelectSocket.reset
MaxSend == 2       \* bytes the OS accepts of one send
BufSize == 6       \* the bufsize setting: bytes one recv may return

(* ------------------------ mcdata (protocol data) ----------------------- *)
HANDSHAKE_STATE == 0
STATUS_STATE == 1
LOGIN_STATE == 2
PLAY_STATE == 3
ProtoStates == {HANDSHAKE_STATE, STATUS_STATE, LOGIN_STATE, PLAY_STATE}

PROTO_COMP_ON == "ON"
PROTO_COMP_OFF == "OFF"

CLIENT_TO_SERVER == ">"
SERVER_TO_CLIENT == "<"

state_lookup == <<"HANDSHAKE", "STATUS", "LOGIN", "PLAY">>

\* name of a protocol state (mcdata.state_lookup[state]); states are 0..3
StateName(state) == state_lookup[state + 1]

\* the messages of each (state, direction): id, name and whether the message
\* carries its one single-byte field
packet_structs ==
  { [state |-> HANDSHAKE_STATE, dir |-> CLIENT_TO_SERVER, id |-> 0,
     name |-> "Handshake", field |-> "next_state"],
    [state |-> LOGIN_STATE, dir |-> CLIENT_TO_SERVER, id |-> 0,
     name |-> "Login Start", field |-> "none"],
    [state |-> PLAY_STATE, dir |-> CLIENT_TO_SERVER, id |-> 0,
     name |-> "Keep Alive", field |-> "keep_alive"],
    [state |-> LOGIN_STATE, dir |-> SERVER_TO_CLIENT, id |-> 0,
     name |-> "Disconnect", field |-> "reason"],
    [state |-> LOGIN_STATE, dir |-> SERVER_TO_CLIENT, id |-> 2,
     name |-> "Login Success", field |-> "none"],
    [state |-> LOGIN_STATE, dir |-> SERVER_TO_CLIENT, id |-> 3,
     name |-> "Set Compression", field |-> "threshold"],
    [state |-> PLAY_STATE, dir |-> SERVER_TO_CLIENT, id |-> 0,
     name |-> "Keep Alive", field |-> "keep_alive"],
    [state |-> PLAY_STATE, dir |-> SERVER_TO_CLIENT, id |-> 2,
     name |-> "Disconnect", field |-> "reason"],
    [state |-> PLAY_STATE, dir |-> SERVER_TO_CLIENT, id |-> 3,
     name |-> "Set Compression", field |-> "threshold"],
    [state |-> STATUS_STATE, dir |-> SERVER_TO_CLIENT, id |-> 0,
     name |-> "Status Response", field |-> "none"] }

\* the message registered under an ident, or the empty set
StructsOf(state, dir, id) ==
  { s \in packet_structs : s.state = state /\ s.dir = dir /\ s.id = id }

\* human-readable identifier of a message, e.g. "LOGIN<Login Success"
StrIdent(s) == StateName(s.state) \o s.dir \o s.name

\* a message object: numeric ident, readable ident and field value
Packet(s, value) ==
  [kind |-> "packet", ident |-> <<s.state, s.dir, s.id>>,
   str_ident |-> StrIdent(s), field |-> s.field, value |-> value]

(* --------------------------- field encodings --------------------------- *)
\* a signed value as one byte (two's complement) and back
PackByte(v) == IF v < 0 THEN v + 256 ELSE v
UnpackByte(b) == IF b >= 128 THEN b - 256 ELSE b

\* variable-length integer: 7 bits per byte, low group first, bit 7 set on
\* every byte but the last; a length prefix is at most five bytes and
\* non-negative as a 32-bit value, anything else is malformed
RECURSIVE PackVarint(_)
PackVarint(n) ==
  IF n < 128 THEN <<n>> ELSE <<128 + (n % 128)>> \o PackVarint(n \div 128)

MaxVarintBytes == 5

RECURSIVE UnpackVarintFrom(_, _, _, _)
UnpackVarintFrom(buf, i, total, mult) ==
  IF i > MaxVarintBytes
  THEN [st |-> "malformed", val |-> 0, rest |-> SubSeq(buf, i, Len(buf))]
  ELSE IF i > Len(buf) THEN [st |-> "underflow", val |-> 0, rest |-> <<>>]
  ELSE IF i = MaxVarintBytes /\ buf[i] >= 8 /\ buf[i] < 128
       THEN [st |-> "malformed", val |-> 0,
             rest |-> SubSeq(buf, i + 1, Len(buf))]
  ELSE IF buf[i] < 128
       THEN [st |-> "ok", val |-> total + buf[i] * mult,
             rest |-> SubSeq(buf, i + 1, Len(buf))]
       ELSE UnpackVarintFrom(buf, i + 1, total + (buf[i] - 128) * mult,
                             mult * 128)

\* read one varint off the front of buf
UnpackVarint(buf) == UnpackVarintFrom(buf, 1, 0, 1)

(* ------------------------------ deflate -------------------------------- *)
DeflateMagic == 120

\* stand-in for the deflate primitive: a header byte, then the payload
\* bytes complemented; Inflate rejects data without the header
Deflate(s) == <<DeflateMagic>> \o [i \in 1..Len(s) |-> 255 - s[i]]

InflateOk(z) == Len(z) >= 1 /\ z[1] = DeflateMagic

Inflate(z) == [i \in 1..(Len(z) - 1) |-> 255 - z[i + 1]]

(* ------------------- BoundBuffer (spock.utils) ------------------------- *)
\* an ordered byte sequence plus a single saved checkpoint
BoundBuffer == [buff |-> <<>>, backup |-> <<>>]

BufAppend(b, bytes) == [b EXCEPT !.buff = b.buff \o bytes]
BufSave(b) == [b EXCEPT !.backup = b.buff]
BufRevert(b) == [b EXCEPT !.buff = b.backup]

(* --------------------- AESCipher (spock.mcp.mccrypto) ------------------ *)
\* stand-in for the stream cipher: ciphertext as long as the plaintext, a
\* keystream that depends on the key and on the position in the stream, one
\* position register per direction
CipherPeriod == 2

AESCipher(secret_key) == [key |-> secret_key, enc |-> 0, dec |-> 0]

\* no cipher object (the attribute is unset or None)
NoCipher == [key |-> -1, enc |-> -1, dec |-> -1]

KeyStream(key, reg) == key + reg

RECURSIVE EncryptFrom(_, _, _, _)
EncryptFrom(key, reg, data, i) ==
  IF i > Len(data) THEN [out |-> <<>>, reg |-> reg]
  ELSE LET r == EncryptFrom(key, (reg + 1) % CipherPeriod, data, i + 1)
       IN  [out |-> <<(data[i] + KeyStream(key, reg)) % 256>> \o r.out,
            reg |-> r.reg]

RECURSIVE DecryptFrom(_, _, _, _)
DecryptFrom(key, reg, data, i) ==
  IF i > Len(data) THEN [out |-> <<>>, reg |-> reg]
  ELSE LET r == DecryptFrom(key, (reg + 1) % CipherPeriod, data, i + 1)
       IN  [out |-> <<(data[i] - KeyStream(key, reg)) % 256>> \o r.out,
            reg |-> r.reg]

\* cipher.encrypt(data): the ciphertext and the cipher after it
Encrypt(cipher, data) ==
  LET r == EncryptFrom(cipher.key, cipher.enc, data, 1)
  IN  [out |-> r.out, cipher |-> [cipher EXCEPT !.enc = r.reg]]

\* cipher.decrypt(data): the plaintext and the cipher after it
Decrypt(cipher, data) ==
  LET r == DecryptFrom(cipher.key, cipher.dec, data, 1)
  IN  [out |-> r.out, cipher |-> [cipher EXCEPT !.dec = r.reg]]

(* ------------------- Packet.encode / Packet.decode --------------------- *)
\* message id followed by the message's field
Body(packet) ==
  <<packet.ident[3]>> \o
  (IF packet.field = "none" THEN <<>> ELSE <<PackByte(packet.value)>>)

\* wire frame of a message under the given compression setting
Encode(packet, comp_state, comp_threshold) ==
  LET body == Body(packet)
      inner == IF comp_state = PROTO_COMP_ON
               THEN IF Len(body) >= comp_threshold
                    THEN PackVarint(Len(body)) \o Deflate(body)
                    ELSE PackVarint(0) \o body
               ELSE body
  IN  PackVarint(Len(inner)) \o inner

\* the message in a frame body, for the given protocol state
DecodeBody(body, proto_state, rest) ==
  IF Len(body) = 0 THEN [st |-> "malformed", rest |-> rest]
  ELSE LET structs == StructsOf(proto_state, SERVER_TO_CLIENT, body[1])
       IN  IF structs = {} THEN [st |-> "malformed", rest |-> rest]
           ELSE LET s == CHOOSE x \in structs : TRUE
                IN  IF s.field = "none"
                    THEN IF Len(body) = 1
                         THEN [st |-> "ok", packet |-> Packet(s, 0),
                               rest |-> rest]
                         ELSE [st |-> "malformed", rest |-> rest]
                    ELSE IF Len(body) = 2
                         THEN [st |-> "ok",
                               packet |-> Packet(s, UnpackByte(body[2])),
                               rest |-> rest]
                         ELSE [st |-> "malformed", rest |-> rest]

\* one parse attempt on the front of buf: "ok" with the message and the
\* bytes left, "underflow" when too few bytes are buffered for the frame,
\* "malformed" for every other failure
Decode(buf, proto_state, comp_state) ==
  LET l == UnpackVarint(buf)
  IN  IF l.st # "ok" THEN [st |-> l.st, rest |-> l.rest]
      ELSE IF Len(l.rest) < l.val THEN [st |-> "underflow", rest |-> l.rest]
      ELSE
        LET pdata == SubSeq(l.rest, 1, l.val)
            rest == SubSeq(l.rest, l.val + 1, Len(l.rest))
        IN  IF comp_state = PROTO_COMP_ON
            THEN LET u == UnpackVarint(pdata)
                 IN  IF u.st # "ok" THEN [st |-> "malformed", rest |-> rest]
                     ELSE IF u.val = 0
                          THEN DecodeBody(u.rest, proto_state, rest)
                     ELSE IF InflateOk(u.rest) /\ Len(u.rest) - 1 = u.val
                          THEN DecodeBody(Inflate(u.rest), proto_state, rest)
                     ELSE [st |-> "malformed", rest |-> rest]
            ELSE DecodeBody(pdata, proto_state, rest)

(* ------------------------------ state ---------------------------------- *)
VARIABLES
  net,      \* the NetCore object: connection fields, buffers, cipher
  sock,     \* the SelectSocket object: handle, bound recv/send, sending flag
  plug,     \* the NetPlugin object: settings and its own attributes
  event,    \* the event bus: kill_event
  trace,    \* what the last operation did: socket calls, emits, sleeps
  exc,      \* the exception that left the last operation, or "none"
  wire,     \* bytes the peer has sent that no recv has returned yet
  feed      \* split-feed experiment: the two parts and the one-call result

vars == <<net, sock, plug, event, trace, exc, wire, feed>>

\* the objects an operation works on, threaded through its statements
World == [net |-> net, sock |-> sock, plug |-> plug, event |-> event,
          trace |-> <<>>, exc |-> "none",
          env |-> [rkind |-> "error", rdata |-> <<>>, skind |-> "error",
                   sn |-> 0]]

\* one entry of the trace; h is a socket handle, a duration or the field
\* of an emitted message, -1 if unused
Entry(op, name, cause, h) == [op |-> op, name |-> name, cause |-> cause, h |-> h]

Log(w, e) == [w EXCEPT !.trace = Append(@, e)]

(* ---------------------------- SelectSocket ----------------------------- *)
\* SelectSocket.__init__: a fresh non-blocking socket; recv and send are
\* bound to that socket
SelectSocket_init ==
  [sending |-> FALSE, sock |-> 0, blocking |-> FALSE, recv |-> 0, send |-> 0]

\* SelectSocket.reset: close the socket, allocate the next one
SelectSocket_reset(w) ==
  LET w1 == Log(w, Entry("close", "", "", w.sock.sock))
      h == w.sock.sock + 1
      w2 == [w1 EXCEPT !.sock.sock = h, !.sock.blocking = FALSE]
  IN  Log(w2, Entry("socket", "", "", h))

(* ------------------------------ NetCore -------------------------------- *)
\* an object before __init__ ran: no attribute holds anything
NewNetCore ==
  [host |-> "None", port |-> "None", connected |-> FALSE, encrypted |-> FALSE,
   proto_state |-> HANDSHAKE_STATE, comp_state |-> PROTO_COMP_OFF,
   comp_threshold |-> 0, sbuff |-> <<>>, rbuff |-> BoundBuffer,
   cipher |-> NoCipher]

\* NetCore.__init__ without the assignment of comp_state
NetCore_init_KeepsComp(self) ==
  [self EXCEPT !.host = "None", !.port = "None", !.connected = FALSE,
               !.encrypted = FALSE, !.proto_state = HANDSHAKE_STATE,
               !.comp_threshold = -1, !.sbuff = <<>>, !.rbuff = BoundBuffer]

\* NetCore.__init__: assigns these attributes and leaves every other one
NetCore_init(self) ==
  [self EXCEPT !.host = "None", !.port = "None", !.connected = FALSE,
               !.encrypted = FALSE, !.proto_state = HANDSHAKE_STATE,
               !.comp_state = PROTO_COMP_OFF, !.comp_threshold = -1,
               !.sbuff = <<>>, !.rbuff = BoundBuffer]

RECURSIVE emit(_, _, _, _)

\* NetCore.connect marking the connection connected before the OS call
connect_ConnectedFirst(w, host, port, ok) ==
  LET w1 == [w EXCEPT !.net.host = host, !.net.port = port,
                      !.net.connected = TRUE]
      w2 == Log([w1 EXCEPT !.sock.blocking = TRUE],
                Entry("setblocking", "True", "", w1.sock.sock))
      w3 == Log(w2, Entry("connect", host, port, w2.sock.sock))
  IN  IF ok
      THEN LET w4 == Log([w3 EXCEPT !.sock.blocking = FALSE],
                         Entry("setblocking", "False", "", w3.sock.sock))
           IN  emit(w4, "connect", host \o ":" \o port, [kind |-> "addr"])
      ELSE Log(w3, Entry("print", "Error on Connect", "socket.error", -1))

\* NetCore.connect; ok is whether the OS connect succeeds
connect(w, host, port, ok) ==
  LET w1 == [w EXCEPT !.net.host = host, !.net.port = port]
      w2 == Log([w1 EXCEPT !.sock.blocking = TRUE],
                Entry("setblocking", "True", "", w1.sock.sock))
      w3 == Log(w2, Entry("connect", host, port, w2.sock.sock))
  IN  IF ok
      THEN LET w4 == Log([w3 EXCEPT !.sock.blocking = FALSE],
                         Entry("setblocking", "False", "", w3.sock.sock))
               w5 == [w4 EXCEPT !.net.connected = TRUE]
           IN  emit(w5, "connect", host \o ":" \o port, [kind |-> "addr"])
      ELSE Log(w3, Entry("print", "Error on Connect", "socket.error", -1))

\* NetCore.set_proto_state
set_proto_state(w, state) ==
  emit([w EXCEPT !.net.proto_state = state],
       StateName(state) \o "_STATE", "None", [kind |-> "none"])

\* NetCore.set_comp_state
set_comp_state(w, threshold) ==
  LET w1 == [w EXCEPT !.net.comp_threshold = threshold]
  IN  IF threshold >= 0
      THEN [w1 EXCEPT !.net.comp_state = PROTO_COMP_ON]
      ELSE w1

\* NetCore.push encrypting whenever a cipher object is installed
push_CipherIfInstalled(w, packet) ==
  LET data == Encode(packet, w.net.comp_state, w.net.comp_threshold)
      e == Encrypt(w.net.cipher, data)
      w1 == IF w.net.cipher # NoCipher
            THEN [w EXCEPT !.net.sbuff = @ \o e.out, !.net.cipher = e.cipher]
            ELSE [w EXCEPT !.net.sbuff = @ \o data]
      w2 == emit(w1, ToString(packet.ident), "packet", packet)
      w3 == emit(w2, packet.str_ident, "packet", packet)
  IN  [w3 EXCEPT !.sock.sending = TRUE]

\* NetCore.push
push(w, packet) ==
  LET data == Encode(packet, w.net.comp_state, w.net.comp_threshold)
      e == Encrypt(w.net.cipher, data)
      w1 == IF w.net.encrypted
            THEN [w EXCEPT !.net.sbuff = @ \o e.out, !.net.cipher = e.cipher]
            ELSE [w EXCEPT !.net.sbuff = @ \o data]
      w2 == emit(w1, ToString(packet.ident), "packet", packet)
      w3 == emit(w2, packet.str_ident, "packet", packet)
  IN  [w3 EXCEPT !.sock.sending = TRUE]

\* one parse attempt is made: Packet(ident = (proto_state,
\* SERVER_TO_CLIENT)).decode(rbuff, comp_state), on so many buffered bytes
Attempted(w) ==
  Log(w, Entry("decode", StateName(w.net.proto_state), w.net.comp_state,
               Len(w.net.rbuff.buff)))

\* the decode loop without the revert on underflow
RECURSIVE read_loop_NoRevert(_)
read_loop_NoRevert(w) ==
  LET saved == Attempted([w EXCEPT !.net.rbuff = BufSave(@)])
      r == Decode(saved.net.rbuff.buff, saved.net.proto_state,
                  saved.net.comp_state)
  IN  IF r.st = "underflow"
      THEN [saved EXCEPT !.net.rbuff.buff = r.rest]
      ELSE IF r.st = "malformed"
      THEN [saved EXCEPT !.net.rbuff.buff = r.rest,
                         !.exc = "PacketDecodeFailure"]
      ELSE LET w1 == [saved EXCEPT !.net.rbuff.buff = r.rest]
               w2 == emit(w1, ToString(r.packet.ident), "packet", r.packet)
               w3 == emit(w2, r.packet.str_ident, "packet", r.packet)
           IN  read_loop_NoRevert(w3)

\* the decode loop catching every exception of the parse attempt
RECURSIVE read_loop_CatchAll(_)
read_loop_CatchAll(w) ==
  LET saved == Attempted([w EXCEPT !.net.rbuff = BufSave(@)])
      r == Decode(saved.net.rbuff.buff, saved.net.proto_state,
                  saved.net.comp_state)
  IN  IF r.st \in {"underflow", "malformed"}
      THEN [saved EXCEPT !.net.rbuff = BufRevert(@)]
      ELSE LET w1 == [saved EXCEPT !.net.rbuff.buff = r.rest]
               w2 == emit(w1, ToString(r.packet.ident), "packet", r.packet)
               w3 == emit(w2, r.packet.str_ident, "packet", r.packet)
           IN  read_loop_CatchAll(w3)

\* the decode loop making one more parse attempt after an underflow
RECURSIVE read_loop_RetriesUnderflow(_)
read_loop_RetriesUnderflow(w) ==
  LET saved == Attempted([w EXCEPT !.net.rbuff = BufSave(@)])
      r == Decode(saved.net.rbuff.buff, saved.net.proto_state,
                  saved.net.comp_state)
  IN  IF r.st = "underflow"
      THEN LET w1 == [saved EXCEPT !.net.rbuff = BufRevert(@)]
               w2 == Attempted([w1 EXCEPT !.net.rbuff = BufSave(@)])
           IN  [w2 EXCEPT !.net.rbuff = BufRevert(@)]
      ELSE IF r.st = "malformed"
      THEN [saved EXCEPT !.net.rbuff.buff = r.rest,
                         !.exc = "PacketDecodeFailure"]
      ELSE LET w1 == [saved EXCEPT !.net.rbuff.buff = r.rest]
               w2 == emit(w1, ToString(r.packet.ident), "packet", r.packet)
               w3 == emit(w2, r.packet.str_ident, "packet", r.packet)
           IN  read_loop_RetriesUnderflow(w3)

\* a decode loop that parses every frame for the given protocol and
\* compression state
RECURSIVE read_loop_With(_, _, _)
read_loop_With(w, proto_state, comp_state) ==
  LET saved == Log([w EXCEPT !.net.rbuff = BufSave(@)],
                   Entry("decode", StateName(proto_state), comp_state,
                         Len(w.net.rbuff.buff)))
      r == Decode(saved.net.rbuff.buff, proto_state, comp_state)
  IN  IF r.st = "underflow"
      THEN [saved EXCEPT !.net.rbuff = BufRevert(@)]
      ELSE IF r.st = "malformed"
      THEN [saved EXCEPT !.net.rbuff.buff = r.rest,
                         !.exc = "PacketDecodeFailure"]
      ELSE LET w1 == [saved EXCEPT !.net.rbuff.buff = r.rest]
               w2 == emit(w1, ToString(r.packet.ident), "packet", r.packet)
               w3 == emit(w2, r.packet.str_ident, "packet", r.packet)
           IN  read_loop_With(w3, proto_state, comp_state)

\* the decode loop reading protocol and compression state once, before
\* the first frame
read_loop_StaleState(w) ==
  read_loop_With(w, w.net.proto_state, w.net.comp_state)

\* the decode loop of NetCore.read_packet
RECURSIVE read_loop(_)
read_loop(w) ==
  LET saved == Attempted([w EXCEPT !.net.rbuff = BufSave(@)])
      r == Decode(saved.net.rbuff.buff, saved.net.proto_state,
                  saved.net.comp_state)
  IN  IF r.st = "underflow"
      THEN [saved EXCEPT !.net.rbuff = BufRevert(@)]
      ELSE IF r.st = "malformed"
      THEN [saved EXCEPT !.net.rbuff.buff = r.rest,
                         !.exc = "PacketDecodeFailure"]
      ELSE LET w1 == [saved EXCEPT !.net.rbuff.buff = r.rest]
               w2 == emit(w1, ToString(r.packet.ident), "packet", r.packet)
               w3 == emit(w2, r.packet.str_ident, "packet", r.packet)
           IN  read_loop(w3)

\* NetCore.read_packet
read_packet(w, data) ==
  LET d == Decrypt(w.net.cipher, data)
      w1 == IF w.net.encrypted
            THEN [w EXCEPT !.net.rbuff = BufAppend(@, d.out),
                           !.net.cipher = d.cipher]
            ELSE [w EXCEPT !.net.rbuff = BufAppend(@, data)]
  IN  read_loop(w1)

\* NetCore.enable_crypto
enable_crypto(w, secret_key) ==
  [w EXCEPT !.net.cipher = AESCipher(secret_key), !.net.encrypted = TRUE]

\* NetCore.disable_crypto
disable_crypto(w) ==
  [w EXCEPT !.net.cipher = NoCipher, !.net.encrypted = FALSE]

\* NetCore.reset (also bound as NetCore.disconnect)
reset(w) ==
  LET w1 == Log([w EXCEPT !.net.connected = FALSE],
                Entry("reset", "", "", -1))
      w2 == SelectSocket_reset(w1)
  IN  [w2 EXCEPT !.net = NetCore_init(@)]

(* ------------------------------ NetPlugin ------------------------------ *)
\* Event.kill
kill(w) == Log([w EXCEPT !.event.kill_event = TRUE], Entry("kill", "", "", -1))

\* the handle a bound recv/send acts on is usable only while it is the
\* open socket of the wrapper; a closed handle raises socket.error
Usable(w, h) == h = w.sock.sock

\* NetPlugin.handleRECV
handleRECV(w) ==
  IF ~w.net.connected THEN w
  ELSE LET w1 == Log(w, Entry("recv", "", "", w.sock.recv))
       IN  IF ~Usable(w, w.sock.recv) \/ w.env.rkind = "error"
           THEN emit(w1, "SOCKET_ERR", "socket.error", [kind |-> "error"])
           ELSE IF w.env.rkind = "eof"
           THEN emit(w1, "SOCKET_HUP", "None", [kind |-> "none"])
           ELSE read_packet(w1, w.env.rdata)

\* the number of bytes the OS accepts of a send of buf
Accepted(w, buf) == IF w.env.sn < Len(buf) THEN w.env.sn ELSE Len(buf)

\* NetPlugin.handleSEND emptying the send buffer after any send
handleSEND_DropsBuffer(w) ==
  IF ~w.net.connected THEN w
  ELSE LET w1 == Log(w, Entry("send", "", "", w.sock.send))
       IN  IF ~Usable(w, w.sock.send) \/ w.env.skind = "error"
           THEN emit(w1, "SOCKET_ERR", "socket.error", [kind |-> "error"])
           ELSE LET sent == Accepted(w1, w1.net.sbuff)
                IN  Log([w1 EXCEPT !.net.sbuff = <<>>],
                        Entry("sent", "", "", sent))

\* NetPlugin.handleSEND without the test of net.connected
handleSEND_Unguarded(w) ==
  LET w1 == Log(w, Entry("send", "", "", w.sock.send))
  IN  IF ~Usable(w, w.sock.send) \/ w.env.skind = "error"
      THEN emit(w1, "SOCKET_ERR", "socket.error", [kind |-> "error"])
      ELSE LET sent == Accepted(w1, w1.net.sbuff)
               w2 == Log([w1 EXCEPT !.net.sbuff =
                            SubSeq(@, sent + 1, Len(@))],
                         Entry("sent", "", "", sent))
           IN  IF w2.net.sbuff # <<>>
               THEN [w2 EXCEPT !.plug.sending = TRUE]
               ELSE w2

\* NetPlugin.handleSEND
handleSEND(w) ==
  IF ~w.net.connected THEN w
  ELSE LET w1 == Log(w, Entry("send", "", "", w.sock.send))
       IN  IF ~Usable(w, w.sock.send) \/ w.env.skind = "error"
           THEN emit(w1, "SOCKET_ERR", "socket.error", [kind |-> "error"])
           ELSE LET sent == Accepted(w1, w1.net.sbuff)
                    w2 == Log([w1 EXCEPT !.net.sbuff =
                                 SubSeq(@, sent + 1, Len(@))],
                              Entry("sent", "", "", sent))
                IN  IF w2.net.sbuff # <<>>
                    THEN [w2 EXCEPT !.plug.sending = TRUE]
                    ELSE w2

\* NetPlugin.handleERR
handleERR(w, cause) ==
  LET w1 == reset(w)
      w2 == emit(w1, "disconnect", cause, [kind |-> "cause"])
  IN  IF w2.plug.sock_quit /\ ~w2.event.kill_event THEN kill(w2) ELSE w2

\* NetPlugin.handleHUP notifying without resetting the engine
handleHUP_NoReset(w) ==
  LET w2 == emit(w, "disconnect", "Socket Hung Up", [kind |-> "cause"])
  IN  IF w2.plug.sock_quit /\ ~w2.event.kill_event THEN kill(w2) ELSE w2

\* NetPlugin.handleHUP
handleHUP(w) ==
  LET w1 == reset(w)
      w2 == emit(w1, "disconnect", "Socket Hung Up", [kind |-> "cause"])
  IN  IF w2.plug.sock_quit /\ ~w2.event.kill_event THEN kill(w2) ELSE w2

\* NetPlugin.handle_handshake
handle_handshake(w, packet) == set_proto_state(w, packet.value)

\* NetPlugin.handle_login_success naming the wrong state
handle_login_success_Stays(w, packet) == set_proto_state(w, LOGIN_STATE)

\* NetPlugin.handle_login_success
handle_login_success(w, packet) == set_proto_state(w, PLAY_STATE)

\* NetPlugin.handle_comp
handle_comp(w, packet) == set_comp_state(w, packet.value)

\* NetPlugin.handle_disconnect
handle_disconnect(w, packet) ==
  emit(w, "disconnect", "reason", [kind |-> "cause"])

\* Event.emit: deliver the event, synchronously, to the handlers that
\* NetPlugin.__init__ registered under its name
emit(w, name, cause, data) ==
  LET w1 == Log(w, Entry("emit", name, cause,
                          IF data.kind = "packet" THEN data.value ELSE -1))
  IN  CASE name = "SOCKET_RECV" -> handleRECV(w1)
        [] name = "SOCKET_SEND" -> handleSEND(w1)
        [] name = "SOCKET_ERR" -> handleERR(w1, cause)
        [] name = "SOCKET_HUP" -> handleHUP(w1)
        [] name = "PLAY<Disconnect" -> handle_disconnect(w1, data)
        [] name = "HANDSHAKE>Handshake" -> handle_handshake(w1, data)
        [] name = "LOGIN<Login Success" -> handle_login_success(w1, data)
        [] name = "LOGIN<Set Compression" -> handle_comp(w1, data)
        [] name = "PLAY<Set Compression" -> handle_comp(w1, data)
        [] OTHER -> w1

\* SelectSocket.poll appending the writable flag before the readable one
poll_WriteFirst(w, timeout, sel) ==
  LET lists == IF w.sock.sending THEN "rwx" ELSE "rx"
      w1 == Log([w EXCEPT !.sock.sending = FALSE],
                Entry("get_timeout", "", "", timeout))
      w2 == Log(w1, Entry("select", lists, "", w1.sock.sock))
      ready == IF sel.error THEN {}
               ELSE IF w.sock.sending THEN sel.ready
               ELSE sel.ready \ {"SOCKET_SEND"}
      flags == (IF "SOCKET_SEND" \in ready THEN <<"SOCKET_SEND">> ELSE <<>>)
            \o (IF "SOCKET_RECV" \in ready THEN <<"SOCKET_RECV">> ELSE <<>>)
            \o (IF "SOCKET_ERR" \in ready THEN <<"SOCKET_ERR">> ELSE <<>>)
  IN  [w |-> w2, flags |-> flags]

\* SelectSocket.poll; sel is what select reports: select.error, or the
\* ready lists as a set of flags
poll(w, timeout, sel) ==
  LET lists == IF w.sock.sending THEN "rwx" ELSE "rx"
      w1 == Log([w EXCEPT !.sock.sending = FALSE],
                Entry("get_timeout", "", "", timeout))
      w2 == Log(w1, Entry("select", lists, "", w1.sock.sock))
      ready == IF sel.error THEN {}
               ELSE IF w.sock.sending THEN sel.ready
               ELSE sel.ready \ {"SOCKET_SEND"}
      flags == (IF "SOCKET_RECV" \in ready THEN <<"SOCKET_RECV">> ELSE <<>>)
            \o (IF "SOCKET_SEND" \in ready THEN <<"SOCKET_SEND">> ELSE <<>>)
            \o (IF "SOCKET_ERR" \in ready THEN <<"SOCKET_ERR">> ELSE <<>>)
  IN  [w |-> w2, flags |-> flags]

\* the loop of NetPlugin.tick over the flags poll returned
RECURSIVE emit_flags(_, _, _)
emit_flags(w, flags, i) ==
  IF i > Len(flags) \/ w.exc # "none" THEN w
  ELSE emit_flags(emit(w, flags[i], "None", [kind |-> "none"]), flags, i + 1)

\* NetPlugin.tick
tick(w, timeout, sel) ==
  IF w.net.connected
  THEN LET p == poll(w, timeout, sel) IN emit_flags(p.w, p.flags, 1)
  ELSE LET w1 == Log(w, Entry("get_timeout", "", "", timeout))
       IN  IF timeout = -1
           THEN Log(w1, Entry("sleep", "", "", 1))
           ELSE Log(w1, Entry("sleep", "", "", timeout))

(* ------------------------------ inputs --------------------------------- *)
Struct(state, dir, name) ==
  CHOOSE s \in packet_structs :
    s.state = state /\ s.dir = dir /\ s.name = name

Handshake(next_state) ==
  Packet(Struct(HANDSHAKE_STATE, CLIENT_TO_SERVER, "Handshake"), next_state)
LoginStart == Packet(Struct(LOGIN_STATE, CLIENT_TO_SERVER, "Login Start"), 0)
LoginSuccess ==
  Packet(Struct(LOGIN_STATE, SERVER_TO_CLIENT, "Login Success"), 0)
SetCompression(threshold) ==
  Packet(Struct(LOGIN_STATE, SERVER_TO_CLIENT, "Set Compression"), threshold)
KeepAlive == Packet(Struct(PLAY_STATE, SERVER_TO_CLIENT, "Keep Alive"), 1)
Disconnect == Packet(Struct(PLAY_STATE, SERVER_TO_CLIENT, "Disconnect"), 1)

\* messages the client pushes
PushPackets == { Handshake(STATUS_STATE), Handshake(LOGIN_STATE) }

\* thresholds passed to set_comp_state
Thresholds == {-1, 2}

SecretKeys == {3}

\* the bytes recv returns for plain bytes d: the peer encrypts, in step
\* with this side's cipher, once encryption is on
OnWire(d) ==
  IF net.encrypted
  THEN EncryptFrom(net.cipher.key, net.cipher.dec, d, 1).out
  ELSE d

\* what a recv may return: up to bufsize of the bytes in flight, end of
\* stream once none is in flight, or socket.error
RecvOutcomes ==
  { [rkind |-> "data", rdata |-> OnWire(SubSeq(wire, 1, n))] :
      n \in { m \in 1..Len(wire) : m <= plug.bufsize } }
  \cup (IF wire = <<>> THEN {[rkind |-> "eof", rdata |-> <<>>]} ELSE {})
  \cup {[rkind |-> "error", rdata |-> <<>>]}

\* what a send may return: the number of bytes accepted, which is the
\* whole send buffer or a part of it (parts of up to MaxSend bytes), or
\* socket.error
SendOutcomes ==
  { [skind |-> "sent", sn |-> n] : n \in (1..MaxSend) \cup {Len(net.sbuff)} }
  \cup { [skind |-> "error", sn |-> 0] }

\* what the OS answers during one tick, given what select reported
Envs(sel) ==
  { [rkind |-> r.rkind, rdata |-> r.rdata, skind |-> x.skind, sn |-> x.sn] :
      r \in (IF "SOCKET_RECV" \in sel.ready THEN RecvOutcomes
             ELSE {[rkind |-> "error", rdata |-> <<>>]}),
      x \in (IF "SOCKET_SEND" \in sel.ready THEN SendOutcomes
             ELSE {[skind |-> "error", sn |-> 0]}) }

\* what select may report: an error, or the ready lists; the socket is
\* in the write list only when the wrapper asked for it (the idle tick
\* does not call select)
Selects ==
  IF ~net.connected THEN { [error |-> FALSE, ready |-> {}] }
  ELSE
  { [error |-> TRUE, ready |-> {}] }
  \cup { [error |-> FALSE, ready |-> r] :
           r \in { x \in SUBSET {"SOCKET_RECV", "SOCKET_SEND", "SOCKET_ERR"} :
                      "SOCKET_SEND" \in x => sock.sending } }

\* select reports the socket readable, nothing else
Readable == { [error |-> FALSE, ready |-> {"SOCKET_RECV"}] }

\* timer.get_timeout(): -1 when no timer is pending, else the seconds
\* until the next deadline; poll bounds select by it, the idle tick sleeps
\* that long
Timeouts == {-1, 0, 2}

(* ------------------------------ actions -------------------------------- *)
NoFeed == [stage |-> "off", part1 |-> <<>>, part2 |-> <<>>, held |-> <<>>,
           first |-> <<>>,
           one |-> [net |-> NewNetCore, emitted |-> <<>>, exc |-> "none"]]

\* the event loop runs until an exception leaves it or it is killed
Running == exc = "none" /\ ~event.kill_event

Call(name) == Log(World, Entry("call", name, "", -1))

Apply(w) ==
  /\ net' = w.net
  /\ sock' = w.sock
  /\ plug' = w.plug
  /\ event' = w.event
  /\ trace' = w.trace
  /\ exc' = w.exc

\* NetPlugin.__init__ with either setting of sock_quit
Init ==
  /\ net = NetCore_init(NewNetCore)
  /\ sock = SelectSocket_init
  /\ plug \in [sending : {FALSE}, sock_quit : BOOLEAN, bufsize : {BufSize}]
  /\ event = [kill_event |-> FALSE]
  /\ trace = <<>>
  /\ exc = "none"
  /\ wire = <<>>
  /\ feed = NoFeed

\* a caller connects; the OS refuses a connect on a connected socket
Connect ==
  /\ Running
  /\ \E ok \in BOOLEAN :
       /\ ok => ~net.connected
       /\ Apply(connect(Call("connect"), "localhost", "25565", ok))
  /\ UNCHANGED <<wire, feed>>

\* a caller pushes a message
PushOf(packets) ==
  /\ Running
  /\ Len(net.sbuff) <= MaxSbuff
  /\ \E packet \in packets : Apply(push(Call("push"), packet))
  /\ UNCHANGED <<wire, feed>>

Push == PushOf(PushPackets)

\* a caller sets the compression threshold
SetCompState ==
  /\ Running
  /\ \E threshold \in Thresholds :
       Apply(set_comp_state(Call("set_comp_state"), threshold))
  /\ UNCHANGED <<wire, feed>>

\* a caller installs the cipher
EnableCrypto ==
  /\ Running
  /\ \E k \in SecretKeys : Apply(enable_crypto(Call("enable_crypto"), k))
  /\ UNCHANGED <<wire, feed>>

\* a caller removes the cipher
DisableCrypto ==
  /\ Running
  /\ Apply(disable_crypto(Call("disable_crypto")))
  /\ UNCHANGED <<wire, feed>>

\* a caller resets (disconnects) the connection; what was in flight on the
\* old socket is gone
Reset ==
  /\ Running
  /\ sock.sock < MaxGen
  /\ Apply(reset(Call("reset")))
  /\ wire' = <<>>
  /\ UNCHANGED feed

\* the peer sends one of segments once the previous one has arrived; no
\* operation of the program runs
ServerSendOf(segments) ==
  /\ Running
  /\ net.connected
  /\ wire = <<>>
  /\ \E f \in segments : wire' = f
  /\ trace' = <<>>
  /\ UNCHANGED <<net, sock, plug, event, exc, feed>>

\* the bytes still in flight after a tick that ended in world w: none on a
\* new socket, else all but the bytes a recv returned
InFlightAfter(w) ==
  IF w.sock.sock # sock.sock THEN <<>>
  ELSE IF /\ \E i \in 1..Len(w.trace) : w.trace[i].op = "recv"
          /\ w.env.rkind = "data"
          /\ Usable(World, sock.recv)
       THEN SubSeq(wire, Len(w.env.rdata) + 1, Len(wire))
       ELSE wire

\* one scheduler tick: select reports one of sels
TickOf(sels) ==
  /\ Running
  /\ \E timeout \in Timeouts, sel \in sels :
     \E env \in Envs(sel) :
       LET w == tick([Call("tick") EXCEPT !.env = env], timeout, sel)
       IN  /\ Len(w.net.rbuff.buff) <= MaxRbuff
           /\ w.sock.sock <= MaxGen
           /\ Apply(w)
           /\ wire' = InFlightAfter(w)
  /\ UNCHANGED feed

Tick == TickOf(Selects)

\* a tick in which the socket is readable and nothing else
TickRecv == net.connected /\ TickOf(Readable)

(* -------------------- specification of the driver ---------------------- *)
\* what the peer sends here: whole frames, uncompressed
DriverSegments ==
  { Encode(LoginSuccess, PROTO_COMP_OFF, -1),
    Encode(Disconnect, PROTO_COMP_OFF, -1) }

ServerSend == ServerSendOf(DriverSegments)

\* the driver: connection lifecycle, pushes, traffic and ticks
Next ==
  \/ Connect
  \/ Push
  \/ Reset
  \/ ServerSend
  \/ Tick

Spec == Init /\ [][Next]_vars

(* ------------- specification of the connection's settings -------------- *)
\* what the peer sends here: announcements of both signs, a login success
FieldSegments ==
  { Encode(SetCompression(2), PROTO_COMP_OFF, -1),
    Encode(SetCompression(-1), PROTO_COMP_OFF, -1),
    Encode(LoginSuccess, PROTO_COMP_OFF, -1) }

InitFields == Init /\ ~plug.sock_quit

NextFields ==
  \/ Connect
  \/ PushOf({Handshake(LOGIN_STATE)})
  \/ SetCompState
  \/ EnableCrypto
  \/ DisableCrypto
  \/ Reset
  \/ ServerSendOf(FieldSegments)
  \/ TickRecv

SpecFields == InitFields /\ [][NextFields]_vars

(* ----------------- specification of the decode path ------------------- *)
\* well-formed frames as the server encodes them, without and with
\* compression
GoodFrames ==
  { Encode(p, c[1], c[2]) :
      p \in { LoginSuccess, SetCompression(2), KeepAlive },
      c \in { <<PROTO_COMP_OFF, -1>>, <<PROTO_COMP_ON, 2>> } }

\* frames no decoder accepts: empty frame, unknown message id, over-long
\* length prefix, compressed data that does not inflate
BadFrames ==
  { <<0>>, <<1, 9>>, <<128, 128, 128, 128, 128>>, <<3, 1, 7, 7>> }

\* a frame cut short: its length prefix announces more than follows
ShortFrames == { <<3, 0>> }

\* two frames arriving in one segment
FramePairs ==
  { Encode(LoginSuccess, PROTO_COMP_OFF, -1)
      \o Encode(KeepAlive, PROTO_COMP_OFF, -1),
    Encode(SetCompression(2), PROTO_COMP_OFF, -1)
      \o Encode(LoginSuccess, PROTO_COMP_ON, 2) }

\* a compression announcement with a negative threshold, sent once
\* compression is on
NegativeAnnouncements == { Encode(SetCompression(-1), PROTO_COMP_ON, 2) }

WireSegments ==
  GoodFrames \cup NegativeAnnouncements \cup BadFrames \cup ShortFrames
    \cup FramePairs

NextWire ==
  \/ Connect
  \/ PushOf({Handshake(LOGIN_STATE)})
  \/ ServerSendOf(WireSegments)
  \/ TickRecv

SpecWire == InitFields /\ [][NextWire]_vars

(* ------------------ specification of the split feed ------------------- *)
MaxFrames == 2     \* frames in one stream

\* the streams of up to n frames
RECURSIVE StreamsOf(_)
StreamsOf(n) ==
  IF n = 0 THEN {<<>>}
  ELSE StreamsOf(n - 1) \cup
       { x \o f : x \in StreamsOf(n - 1), f \in GoodFrames }

\* the emits of messages in a trace, in order
Emits(t) == SelectSeq(t, LAMBDA e : e.op = "emit" /\ e.cause = "packet")

\* what the rest of the program observes of a read
Observed(w) == [net |-> w.net, emitted |-> Emits(w.trace), exc |-> w.exc]

\* a stream of well-formed frames for the state w0: one read decodes all of
\* it, frame after frame, and at least one frame
WellFormed(w0, stream) ==
  LET w == read_packet(w0, stream)
  IN  w.exc = "none" /\ w.net.rbuff.buff = <<>> /\ Emits(w.trace) # <<>>

\* the bytes the peer puts on the wire for a stream, given the start state
Ciphered(w0, stream) ==
  IF w0.net.encrypted
  THEN EncryptFrom(w0.net.cipher.key, w0.net.cipher.dec, stream, 1).out
  ELSE stream

\* the plugin right after construction, nothing fed yet
InitSplit == InitFields

\* the caller brings the connection to LOGIN and may install the cipher
FeedPrepare ==
  /\ feed.stage = "off"
  /\ \/ Connect
     \/ /\ net.connected
        /\ net.proto_state = HANDSHAKE_STATE
        /\ PushOf({Handshake(LOGIN_STATE)})
     \/ /\ net.proto_state = LOGIN_STATE
        /\ ~net.encrypted
        /\ EnableCrypto

\* frames the peer sent before the stream under test, each read whole: they
\* move the connection to PLAY or announce compression
FeedAnnounce ==
  /\ feed.stage = "off"
  /\ Running
  /\ net.connected
  /\ \E f \in GoodFrames :
       LET w == read_packet(Call("read_packet"), Ciphered(World, f))
       IN  /\ w.exc = "none"
           /\ w.net.rbuff.buff = <<>>
           /\ w.net.connected
           /\ Apply(w)
  /\ UNCHANGED <<wire, feed>>

\* the peer's next stream, well-formed for the current state, is cut in two
\* at an arbitrary byte
FeedBegin ==
  /\ feed.stage = "off"
  /\ Running
  /\ net.connected
  /\ \E stream \in StreamsOf(MaxFrames) :
       LET data == Ciphered(World, stream)
       IN  /\ WellFormed([World EXCEPT !.trace = <<>>], data)
           /\ \E k \in 0..Len(data) :
                feed' = [NoFeed EXCEPT !.stage = "start",
                                       !.part1 = SubSeq(data, 1, k),
                                       !.part2 = SubSeq(data, k + 1, Len(data))]
  /\ trace' = <<>>
  /\ UNCHANGED <<net, sock, plug, event, exc, wire>>

\* the reference: one call with the whole stream, its outcome noted
FeedWhole ==
  /\ feed.stage = "start"
  /\ feed' = [feed EXCEPT
                !.stage = "one",
                !.one = Observed(read_packet(World, feed.part1 \o feed.part2))]
  /\ UNCHANGED <<net, sock, plug, event, trace, exc, wire>>

\* read_packet(part1)
FeedPart1 ==
  /\ feed.stage = "one"
  /\ LET w == read_packet(Call("read_packet"), feed.part1)
     IN  /\ Apply(w)
         /\ feed' = [feed EXCEPT !.stage = "part1",
                                 !.held = w.net.rbuff.buff,
                                 !.first = Emits(w.trace)]
  /\ UNCHANGED wire

\* read_packet(part2)
FeedPart2 ==
  /\ feed.stage = "part1"
  /\ exc = "none"
  /\ Apply(read_packet(Call("read_packet"), feed.part2))
  /\ feed' = [feed EXCEPT !.stage = "done"]
  /\ UNCHANGED wire

NextSplit ==
  \/ FeedPrepare
  \/ FeedAnnounce
  \/ FeedBegin
  \/ FeedWhole
  \/ FeedPart1
  \/ FeedPart2

SpecSplit == InitSplit /\ [][NextSplit]_vars

(* =============================== claims ================================ *)
\* the entries of the last operation's trace
Steps == 1..Len(trace)

IsEmit(i, name) == trace[i].op = "emit" /\ trace[i].name = name

\* the last operation called reset
DidReset == \E i \in Steps : trace[i].op = "reset"

\* C3: in every reachable state the compression state is ON if and only if
\* the compression threshold is non-negative.
C3_CompOnIffThreshold ==
  (net.comp_state = PROTO_COMP_ON) <=> (net.comp_threshold >= 0)

\* C4: in every reachable state a cipher is installed if and only if
\* encrypted is true; after enable_crypto and reset no cipher remains.
C4_CipherIffEncrypted == (net.cipher # NoCipher) <=> net.encrypted

\* the number of sockets the last operation allocated after its step i
OpenedAfter(i) ==
  Cardinality({ j \in Steps : j > i /\ trace[j].op = "socket" })

\* C5: every socket operation issued through the wrapper (select, connect,
\* recv, send) acts on the handle that is the wrapper's open socket at that
\* moment, never on a handle closed by an earlier reset.
C5_OpsOnCurrentHandle ==
  \A i \in Steps :
    trace[i].op \in {"select", "connect", "recv", "send"} =>
      trace[i].h = sock.sock - OpenedAfter(i)

\* C6: after a writable dispatch that leaves a non-empty remainder in the
\* send buffer, the socket wrapper's sending flag is true, so that the next
\* poll asks for write readiness.
C6_RemainderRequestsWrite ==
  ( /\ \E i \in Steps : trace[i].op = "send"
    /\ net.connected
    /\ net.sbuff # <<>> ) => sock.sending

\* the protocol state edges of the specification
ProtoEdges ==
  { <<HANDSHAKE_STATE, STATUS_STATE>>, <<HANDSHAKE_STATE, LOGIN_STATE>>,
    <<LOGIN_STATE, PLAY_STATE>> }

\* C7: the protocol state changes only along HANDSHAKE->STATUS,
\* HANDSHAKE->LOGIN and LOGIN->PLAY, or back to HANDSHAKE by a reset.
C7_OnlySpecifiedEdges ==
  [][ net.proto_state' # net.proto_state =>
        \/ <<net.proto_state, net.proto_state'>> \in ProtoEdges
        \/ /\ net.proto_state' = HANDSHAKE_STATE
           /\ sock.sock' # sock.sock ]_vars

\* C9: after an operation that called reset, every connection field has
\* its construction-time default.
C9_ResetRestoresDefaults ==
  DidReset =>
    /\ net.connected = FALSE
    /\ net.proto_state = HANDSHAKE_STATE
    /\ net.comp_state = PROTO_COMP_OFF
    /\ net.comp_threshold = -1
    /\ net.encrypted = FALSE
    /\ net.sbuff = <<>>
    /\ net.rbuff = BoundBuffer

\* C9 witness: a reset has run on a connection that had been encrypted
\* (the cipher object outlives the reset).
C9_Witness == DidReset /\ net.cipher # NoCipher

\* the teardown the driver performs after the event at step i: reset of
\* the engine (closing the socket, allocating the next), then one
\* disconnect notification with the cause, then kill iff sock_quit is set
\* and the loop is not killed already
TeardownAt(i, cause) ==
  /\ i + 4 <= Len(trace)
  /\ trace[i + 1].op = "reset"
  /\ trace[i + 2].op = "close"
  /\ trace[i + 3].op = "socket"
  /\ IsEmit(i + 4, "disconnect")
  /\ trace[i + 4].cause = cause
  /\ LET killed == \E k \in 1..(i + 4) : trace[k].op = "kill"
         kills == i + 5 <= Len(trace) /\ trace[i + 5].op = "kill"
     IN  kills <=> (plug.sock_quit /\ ~killed)

\* C10: a zero-length read (SOCKET_HUP) and a socket error (SOCKET_ERR)
\* are followed by the same sequence: engine reset, one disconnect
\* notification, kill iff configured; only the cause differs.
C10_HangupSameAsError ==
  \A i \in Steps :
    /\ IsEmit(i, "SOCKET_HUP") => TeardownAt(i, "Socket Hung Up")
    /\ IsEmit(i, "SOCKET_ERR") => TeardownAt(i, trace[i].cause)

\* C10 witness: one tick saw a hang-up and an error, with sock_quit set.
C10_Witness ==
  /\ plug.sock_quit
  /\ \E i \in Steps : IsEmit(i, "SOCKET_HUP")
  /\ \E i \in Steps : IsEmit(i, "SOCKET_ERR")

\* the state a parse attempt ran in: the connection's current one
Attempt(buf) == Decode(buf, net.proto_state, net.comp_state)

\* C1: the decode loop ends without exception only on underflow, with the
\* buffer reverted to its checkpoint; a malformed frame is not reverted and
\* leaves read_packet as an exception.
C1_DecodeErrorNotUnderflow ==
  /\ exc = "none" => Attempt(net.rbuff.buff).st = "underflow"
  /\ exc # "none" =>
       /\ Attempt(net.rbuff.backup).st = "malformed"
       /\ net.rbuff.buff # net.rbuff.backup

\* C1 witness: a read ended in a decode failure.
C1_Witness == exc = "PacketDecodeFailure" /\ net.rbuff.backup # <<>>

\* the last operation, given by its trace t, emitted the message name
Emitted(t, name) ==
  \E i \in 1..Len(t) : t[i].op = "emit" /\ t[i].name = name

EmittedWith(t, name, value) ==
  \E i \in 1..Len(t) : t[i].op = "emit" /\ t[i].name = name /\ t[i].h = value

AnnouncedCompression(t) ==
  Emitted(t, "LOGIN<Set Compression") \/ Emitted(t, "PLAY<Set Compression")

\* C8: a handshake requesting LOGIN, handled in HANDSHAKE, leaves LOGIN; a
\* login success, handled in LOGIN, leaves PLAY; an operation that handles
\* compression announcements and neither of those two leaves the protocol
\* state as it was.
C8_TransitionsDeterministic ==
  [][ /\ ( net.proto_state = HANDSHAKE_STATE
           /\ EmittedWith(trace', "HANDSHAKE>Handshake", LOGIN_STATE) )
        => net.proto_state' = LOGIN_STATE
      /\ ( net.proto_state = LOGIN_STATE
           /\ Emitted(trace', "LOGIN<Login Success") )
        => net.proto_state' = PLAY_STATE
      /\ ( AnnouncedCompression(trace')
           /\ ~Emitted(trace', "LOGIN<Login Success")
           /\ ~Emitted(trace', "HANDSHAKE>Handshake") )
        => net.proto_state' = net.proto_state ]_vars

\* C8 witness: the connection is in PLAY with compression announced, and
\* the last read handled the announcement and the login success.
C8_Witness ==
  /\ net.proto_state = PLAY_STATE
  /\ net.comp_state = PROTO_COMP_ON
  /\ Emitted(trace, "LOGIN<Set Compression")
  /\ Emitted(trace, "LOGIN<Login Success")

\* C2: for a stream of well-formed frames cut at any point, read_packet of
\* the first part and then of the second emits the same messages in the
\* same order, and ends in the same connection state (receive buffer,
\* protocol and compression state), as one read_packet of the whole; after
\* each read the buffer is what its checkpoint recorded before the attempt
\* that ran out of bytes.
C2_SplitFeedEqualsWhole ==
  /\ feed.stage \in {"part1", "done"} => net.rbuff.buff = net.rbuff.backup
  /\ feed.stage = "done" =>
       /\ net = feed.one.net
       /\ exc = feed.one.exc
       /\ feed.first \o Emits(trace) = feed.one.emitted

\* C2 witness: a stream of two messages was cut inside a frame, so that the
\* first read left a partial frame in the buffer.
C2_Witness ==
  /\ feed.stage = "done"
  /\ feed.held # <<>>
  /\ feed.first # <<>>
  /\ Emits(trace) # <<>>

\* C11: every disconnect notification of the error / hang-up dispatch
\* carries a cause that is present (not None), however the error was
\* detected.
C11_DisconnectCarriesCause ==
  \A i \in Steps : IsEmit(i, "disconnect") => trace[i].cause # "None"

\* C12: the socket is in non-blocking mode whenever connect has returned,
\* whether the connect succeeded or failed.
C12_NonBlockingAfterConnect == ~sock.blocking

\* the operation with trace t is a call of name
IsCall(t, name) == Len(t) >= 1 /\ t[1].op = "call" /\ t[1].name = name

\* the OS connect of the operation with trace t raised socket.error
ConnectFailed(t) ==
  \E i \in 1..Len(t) : t[i].op = "print" /\ t[i].name = "Error on Connect"

\* the connect notifications in trace t
ConnectEmits(t) ==
  { i \in 1..Len(t) : t[i].op = "emit" /\ t[i].name = "connect" }

\* C13: a failed connect leaves connected as it was (false), emits no
\* connect notification and changes no protocol, compression or crypto
\* state and no buffer; a successful connect sets connected and emits
\* exactly one connect notification carrying (host, port).
C13_ConnectOutcome ==
  [][ IsCall(trace', "connect") =>
        IF ConnectFailed(trace')
        THEN /\ net' = [net EXCEPT !.host = net'.host, !.port = net'.port]
             /\ ConnectEmits(trace') = {}
        ELSE /\ net' = [net EXCEPT !.host = net'.host, !.port = net'.port,
                                  !.connected = TRUE]
             /\ Cardinality(ConnectEmits(trace')) = 1
             /\ \A i \in ConnectEmits(trace') :
                  trace'[i].cause = net'.host \o ":" \o net'.port ]_vars

\* C13 witness: a connect failed on a connection that was not connected
\* and whose engine had already advanced to LOGIN with bytes to send.
C13_Witness ==
  /\ IsCall(trace, "connect")
  /\ ConnectFailed(trace)
  /\ ~net.connected
  /\ net.proto_state = LOGIN_STATE
  /\ net.sbuff # <<>>

\* the bytes an operation appended to the send buffer
Appended == SubSeq(net'.sbuff, Len(net.sbuff) + 1, Len(net'.sbuff))

\* C14: the frame a push appends is the encoded message, every byte of it
\* encrypted if encrypted was true at that push and every byte plain
\* otherwise, behind the unchanged bytes already buffered; enable_crypto
\* and disable_crypto leave the send buffer as it is.
C14_NoMixedModeFrame ==
  [][ /\ IsCall(trace', "push") =>
           /\ Len(net'.sbuff) > Len(net.sbuff)
           /\ SubSeq(net'.sbuff, 1, Len(net.sbuff)) = net.sbuff
           /\ \E packet \in PushPackets :
                LET data == Encode(packet, net.comp_state, net.comp_threshold)
                IN  /\ Len(Appended) = Len(data)
                    /\ IF net.encrypted
                       THEN /\ DecryptFrom(net.cipher.key, net.cipher.enc,
                                           Appended, 1).out = data
                            /\ \A i \in 1..Len(data) : Appended[i] # data[i]
                       ELSE Appended = data
      /\ (IsCall(trace', "enable_crypto") \/ IsCall(trace', "disable_crypto"))
           => net'.sbuff = net.sbuff ]_vars

\* C14 witness: the send buffer holds a plaintext frame followed by a
\* frame pushed after enable_crypto.
C14_Witness ==
  /\ IsCall(trace, "push")
  /\ net.encrypted
  /\ LET plain == Encode(Handshake(LOGIN_STATE), PROTO_COMP_OFF, -1)
     IN  /\ Len(net.sbuff) = 2 * Len(plain)
         /\ SubSeq(net.sbuff, 1, Len(plain)) = plain
         /\ SubSeq(net.sbuff, Len(plain) + 1, Len(net.sbuff)) # plain

\* the calls on the socket and on the socket module
SocketOps ==
  {"select", "recv", "send", "connect", "setblocking", "close", "socket"}

\* C15: a tick that starts with connected = false asks the timer, sleeps
\* the fallback second if no timer is pending and else until the deadline,
\* and does nothing on the socket; in a tick that starts connected, no
\* recv and no send is made once a reset has set connected to false.
C15_IdleNoSocketOps ==
  [][ IsCall(trace', "tick") =>
        IF ~net.connected
        THEN /\ \A i \in 1..Len(trace') : trace'[i].op \notin SocketOps
             /\ Len(trace') = 3
             /\ trace'[2].op = "get_timeout"
             /\ trace'[3].op = "sleep"
             /\ trace'[3].h = IF trace'[2].h = -1 THEN 1 ELSE trace'[2].h
        ELSE \A i \in 1..Len(trace') :
               trace'[i].op \in {"recv", "send"} =>
                 ~ \E j \in 1..(i - 1) : trace'[j].op = "reset" ]_vars

\* C15 witness: an idle tick slept until a pending timer's deadline, on a
\* connection that had been torn down with bytes still to send.
C15_Witness ==
  /\ IsCall(trace, "tick")
  /\ ~net.connected
  /\ sock.sock > 0
  /\ \E i \in Steps : trace[i].op = "sleep" /\ trace[i].h > 1

\* the place of a readiness flag in the dispatch order
FlagRank(name) ==
  CASE name = "SOCKET_RECV" -> 1
    [] name = "SOCKET_SEND" -> 2
    [] name = "SOCKET_ERR" -> 3

\* the flags tick emitted, as steps of the trace: tick emits a flag with
\* no payload, the handlers emit SOCKET_ERR with the socket.error
TickFlags ==
  { i \in Steps :
      /\ trace[i].op = "emit"
      /\ trace[i].name \in {"SOCKET_RECV", "SOCKET_SEND", "SOCKET_ERR"}
      /\ trace[i].cause = "None" }

\* the recv at step i returned no byte or raised socket.error
RecvEnded(i) ==
  /\ trace[i].op = "recv"
  /\ i + 1 <= Len(trace)
  /\ (IsEmit(i + 1, "SOCKET_HUP") \/ IsEmit(i + 1, "SOCKET_ERR"))

\* C16: within a tick the flags are dispatched in the order readable,
\* writable, errored, and after a recv that saw end-of-stream or an error
\* no send is attempted in the rest of the tick.
C16_DispatchOrder ==
  IsCall(trace, "tick") =>
    /\ \A i, j \in TickFlags :
         i < j => FlagRank(trace[i].name) < FlagRank(trace[j].name)
    /\ \A i \in Steps :
         RecvEnded(i) => \A j \in Steps : j > i => trace[j].op # "send"

\* C16 witness: a tick dispatched the writable flag after its readable
\* dispatch had seen end-of-stream.
C16_Witness ==
  \E i \in Steps : \E j \in Steps :
    /\ i < j
    /\ RecvEnded(i)
    /\ IsEmit(i + 1, "SOCKET_HUP")
    /\ IsEmit(j, "SOCKET_SEND")

\* the parse attempts in trace t from step i on were made for the
\* protocol state and compression state in effect at that step, starting
\* from proto_state and comp_state and following the handlers' changes:
\* handshake and login success set the protocol state, a compression
\* announcement with a non-negative threshold turns compression on, a
\* reset restores the defaults
RECURSIVE ParsedInCurrentState(_, _, _, _)
ParsedInCurrentState(t, i, proto_state, comp_state) ==
  IF i > Len(t) THEN TRUE
  ELSE LET e == t[i]
       IN  IF e.op = "decode"
           THEN /\ e.name = StateName(proto_state)
                /\ e.cause = comp_state
                /\ ParsedInCurrentState(t, i + 1, proto_state, comp_state)
           ELSE IF e.op = "emit" /\ e.name = "HANDSHAKE>Handshake"
           THEN ParsedInCurrentState(t, i + 1, e.h, comp_state)
           ELSE IF e.op = "emit" /\ e.name = "LOGIN<Login Success"
           THEN ParsedInCurrentState(t, i + 1, PLAY_STATE, comp_state)
           ELSE IF /\ e.op = "emit"
                   /\ e.name \in {"LOGIN<Set Compression",
                                   "PLAY<Set Compression"}
                   /\ e.h >= 0
           THEN ParsedInCurrentState(t, i + 1, proto_state, PROTO_COMP_ON)
           ELSE IF e.op = "reset"
           THEN ParsedInCurrentState(t, i + 1, HANDSHAKE_STATE,
                                     PROTO_COMP_OFF)
           ELSE ParsedInCurrentState(t, i + 1, proto_state, comp_state)

\* C17: every parse attempt of a read is made with the protocol state and
\* the compression state as the handlers of the frames before it left
\* them.
C17_StateChangeBeforeNextFrame ==
  [][ ParsedInCurrentState(trace', 1, net.proto_state, net.comp_state) ]_vars

\* the parse attempts of the last operation
Decodes == { i \in Steps : trace[i].op = "decode" }

\* C17 witness: one read parsed a compression announcement in the plain
\* layout, then a login success in the compressed layout, then looked
\* for the next frame in PLAY.
C17_Witness ==
  \E i, j, k \in Decodes :
    /\ i < j /\ j < k
    /\ trace[i].name = "LOGIN" /\ trace[i].cause = PROTO_COMP_OFF
    /\ trace[j].name = "LOGIN" /\ trace[j].cause = PROTO_COMP_ON
    /\ trace[k].name = "PLAY" /\ trace[k].cause = PROTO_COMP_ON

\* the sends of the operation with trace t that the OS accepted
Sents(t) == { i \in 1..Len(t) : t[i].op = "sent" }

\* the frame push appends for packet in the current state
Frame(packet) ==
  LET data == Encode(packet, net.comp_state, net.comp_threshold)
  IN  IF net.encrypted
      THEN EncryptFrom(net.cipher.key, net.cipher.enc, data, 1).out
      ELSE data

\* C18: between two resets the bytes the socket accepted, followed by the
\* send buffer, are the pushed frames in push order. Step by step: a reset
\* empties the send buffer; a push appends its encoded frame behind the
\* bytes already buffered; a writable dispatch removes exactly the prefix
\* of as many bytes as the socket accepted; nothing else changes the send
\* buffer.
C18_OutboundConserved ==
  [][ IF \E i \in 1..Len(trace') : trace'[i].op = "reset"
      THEN net'.sbuff = <<>>
      ELSE IF IsCall(trace', "push")
      THEN \E packet \in PushPackets : net'.sbuff = net.sbuff \o Frame(packet)
      ELSE IF Sents(trace') # {}
      THEN /\ Cardinality(Sents(trace')) = 1
           /\ \A i \in Sents(trace') :
                /\ trace'[i].h \in 0..Len(net.sbuff)
                /\ net'.sbuff =
                     SubSeq(net.sbuff, trace'[i].h + 1, Len(net.sbuff))
      ELSE net'.sbuff = net.sbuff ]_vars

\* C18 witness: two frames of three bytes were buffered and the socket
\* accepted two bytes, so the remainder starts inside the first frame.
C18_Witness ==
  /\ IsCall(trace, "tick")
  /\ \E i \in Steps : trace[i].op = "sent" /\ trace[i].h = 2
  /\ Len(net.sbuff) = 4

\* the disconnect notifications and the engine resets of the last
\* operation
Disconnects == { i \in Steps : IsEmit(i, "disconnect") }
Resets == { i \in Steps : trace[i].op = "reset" }

\* C19: one operation (one tick) emits the disconnect notification at
\* most once and resets the engine at most once, also when poll reports
\* the socket both readable and errored.
C19_AtMostOneDisconnect ==
  Cardinality(Disconnects) <= 1 /\ Cardinality(Resets) <= 1

\* C20: within one read every parse attempt after the first finds fewer
\* bytes buffered than the attempt before it, so the loop makes at most
\* one attempt more than there were bytes buffered at its first attempt.
C20_DecodeLoopTerminates ==
  /\ \A i, j \in Decodes : i < j => trace[j].h < trace[i].h
  /\ \A i \in Decodes : Cardinality(Decodes) <= trace[i].h + 1
                           + Cardinality({ j \in Decodes : j < i })

\* C20 witness: a read made three parse attempts, two frames and the
\* underflow that ended the loop.
C20_Witness == Cardinality(Decodes) = 3 /\ exc = "none"

====
